---- MODULE Spec2Model ----
(***************************************************************************)
(* A model of package envreq: the process-wide registry of environment     *)
(* variable requirements (envreq.go) and its validators (validators).      *)
(*                                                                         *)
(* Strings are sequences of code points, so that len, slicing, padding,    *)
(* byte-wise comparison and substring search are computed as the Go code   *)
(* computes them.  All strings of the model are ASCII except the mask      *)
(* bullet U+2022, which is kept as one code point.                         *)
(***************************************************************************)
EXTENDS Integers, Sequences, FiniteSets, TLC

(***************************************************************************)
(* Bounds of the model.                                                    *)
(***************************************************************************)
\* number of goroutines calling into the package
NumProcs == 2
\* number of top-level calls made in one behaviour of Spec
MaxOps == 3
\* number of top-level calls made in one behaviour of SeqSpec
MaxSeqOps == 4
\* the calls made by concurrent callers that all declare one requirement
MaxRaceOps == 4
\* longest environment value resolved for Report in ReportSpec
MaxValLen == 5
\* longest list of results handed to Report in ReportSpec
MaxResults == 3
\* the longest string handed to Port on its own
MaxPortInputLen == 5

(***************************************************************************)
(* Program constants.                                                      *)
(***************************************************************************)
\* column widths of "%-20s %-12s %-8s %-9s %-8s %s\n"
WidthEnv == 20
WidthSource == 12
WidthRequired == 8
WidthSensitive == 9
WidthStatus == 8
\* len(res.Value) > 20 : a non-sensitive value longer than this is cut
TruncateOver == 20
\* res.Value[:17]
TruncateKeep == 17
\* res.Value[len(res.Value)-4:]
MaskSuffix == 4
\* len(v) > 5 in Port
PortMaxLen == 5

(***************************************************************************)
(* String literals of the source.                                          *)
(***************************************************************************)
EmptyStr == << >>
\* "ENV"
HdrENV == <<69, 78, 86>>
\* "SOURCE"
HdrSOURCE == <<83, 79, 85, 82, 67, 69>>
\* "REQUIRED"
HdrREQUIRED == <<82, 69, 81, 85, 73, 82, 69, 68>>
\* "SENSITIVE"
HdrSENSITIVE == <<83, 69, 78, 83, 73, 84, 73, 86, 69>>
\* "STATUS"
HdrSTATUS == <<83, 84, 65, 84, 85, 83>>
\* "DETAILS"
HdrDETAILS == <<68, 69, 84, 65, 73, 76, 83>>
\* "yes"
StrYes == <<121, 101, 115>>
\* "no"
StrNo == <<110, 111>>
\* "ok"
StrOk == <<111, 107>>
\* "missing"
StrMissing == <<109, 105, 115, 115, 105, 110, 103>>
\* "invalid"
StrInvalid == <<105, 110, 118, 97, 108, 105, 100>>
\* "Error: "
StrErrorPrefix == <<69, 114, 114, 111, 114, 58, 32>>
\* " (value: "
StrValueOpen == <<32, 40, 118, 97, 108, 117, 101, 58, 32>>
\* "...)"
StrEllipsisClose == <<46, 46, 46, 41>>
\* ")"
StrClose == <<41>>
\* four bullets U+2022
StrMask == <<8226, 8226, 8226, 8226>>
\* "value cannot be empty"
MsgNotEmpty == <<118, 97, 108, 117, 101, 32, 99, 97, 110, 110, 111, 116, 32, 98, 101, 32, 101, 109, 112, 116, 121>>
\* "port cannot be empty"
MsgPortEmpty == <<112, 111, 114, 116, 32, 99, 97, 110, 110, 111, 116, 32, 98, 101, 32, 101, 109, 112, 116, 121>>
\* "invalid port number"
MsgPortInvalid == <<105, 110, 118, 97, 108, 105, 100, 32, 112, 111, 114, 116, 32, 110, 117, 109, 98, 101, 114>>
\* "port must be numeric"
MsgPortNumeric == <<112, 111, 114, 116, 32, 109, 117, 115, 116, 32, 98, 101, 32, 110, 117, 109, 101, 114, 105, 99>>
\* "port must be between 1 and 65535"
MsgPortRange == <<112, 111, 114, 116, 32, 109, 117, 115, 116, 32, 98, 101, 32, 98, 101, 116, 119, 101, 101, 110, 32, 49, 32, 97, 110, 100, 32, 54, 53, 53, 51, 53>>
\* "65535"
Str65535 == <<54, 53, 53, 51, 53>>
\* "0"
Str0 == <<48>>

(***************************************************************************)
(* String operations of Go, on sequences of code points.                   *)
(***************************************************************************)
Space == 32
Dash == 45
Newline == 10

\* strings.Repeat(c, n) for a one-character string
Repeat(c, n) == [i \in 1..n |-> c]

\* the verb %-Ns : s followed by blanks up to width n, never cut
PadRight(s, n) == IF Len(s) >= n THEN s ELSE s \o Repeat(Space, n - Len(s))

\* strings.Contains(s, sub)
Contains(s, sub) ==
    \E i \in 0..(Len(s) - Len(sub)) : SubSeq(s, i + 1, i + Len(sub)) = sub

\* the index of the first position where a and b differ, 0 when one is a prefix
FirstDiff(a, b) ==
    LET m == IF Len(a) < Len(b) THEN Len(a) ELSE Len(b)
        D == {i \in 1..m : a[i] # b[i]}
    IN IF D = {} THEN 0 ELSE CHOOSE i \in D : \A j \in D : i <= j

\* a < b of Go strings: byte-wise lexicographic order
StrLess(a, b) ==
    LET d == FirstDiff(a, b)
    IN IF d = 0 THEN Len(a) < Len(b) ELSE a[d] < b[d]

\* a > b of Go strings
StrGreater(a, b) == StrLess(b, a)

\* unicode.IsSpace on the ASCII range
IsSpace(c) == c \in {9, 10, 11, 12, 13, 32}

\* strings.TrimSpace(v) == ""
TrimSpaceIsEmpty(v) == \A i \in 1..Len(v) : IsSpace(v[i])

(***************************************************************************)
(* Errors: nil, or an error carrying a message.                            *)
(***************************************************************************)
NilErr == [nil |-> TRUE, msg |-> EmptyStr]
Errorf(m) == [nil |-> FALSE, msg |-> m]

(***************************************************************************)
(* Validators.                                                             *)
(***************************************************************************)
\* NotEmpty validates that the value is not empty or only whitespace
NotEmpty(v) == IF TrimSpaceIsEmpty(v) THEN Errorf(MsgNotEmpty) ELSE NilErr

\* len(v) == 5 && v > "65535"
PortUpper(v) == Len(v) = PortMaxLen /\ StrGreater(v, Str65535)

\* Port validates that the value is a valid port number (1-65535)
Port(v) ==
    IF v = EmptyStr THEN Errorf(MsgPortEmpty)
    ELSE IF Len(v) = 0 \/ Len(v) > PortMaxLen THEN Errorf(MsgPortInvalid)
    ELSE IF \E i \in 1..Len(v) : v[i] < 48 \/ v[i] > 57 THEN Errorf(MsgPortNumeric)
    ELSE IF v = Str0 \/ PortUpper(v) THEN Errorf(MsgPortRange)
    ELSE NilErr

\* Requirement.Validate is a function value: nil or one of the validators
ValidatorIds == {"nil", "NotEmpty", "Port"}

\* r.Validate(val)
ApplyValidator(id, v) ==
    CASE id = "NotEmpty" -> NotEmpty(v)
      [] id = "Port" -> Port(v)
      [] OTHER -> NilErr

(***************************************************************************)
(* Requirement and Result.                                                 *)
(***************************************************************************)
\* type Requirement struct
Requirement(name, source, description, optional, default, validate, sensitive) ==
    [Name |-> name, Source |-> source, Description |-> description,
     Optional |-> optional, Default |-> default, Validate |-> validate,
     Sensitive |-> sensitive]

\* type Result struct: the embedded Requirement and Present, Value, Err
Result(r, present, value, err) ==
    [Requirement |-> r, Present |-> present, Value |-> value, Err |-> err]

\* the zero values of the two structs
ZeroRequirement == Requirement(EmptyStr, EmptyStr, EmptyStr, FALSE, EmptyStr, "nil", FALSE)
ZeroResult == Result(ZeroRequirement, FALSE, EmptyStr, NilErr)

\* m[k] = v on a Go map
MapSet(m, k, v) == [x \in DOMAIN m \cup {k} |-> IF x = k THEN v ELSE m[x]]

\* map[string]T{}
EmptyMap == [x \in {} |-> ZeroRequirement]

(***************************************************************************)
(* Check, lines 91-115: the merge of a declaration into the registry       *)
(* entry of its name.                                                      *)
(***************************************************************************)
\* a merge where the last declaration decides
MergeOptionalLast(existing, r) == r.Optional

\* Required wins over optional
MergeOptional(existing, r) ==
    IF ~existing.Optional \/ ~r.Optional THEN FALSE ELSE existing.Optional

\* a merge where the last declaration decides the sensitivity
MergeSensitiveLast(existing, r) == r.Sensitive

\* Sensitive wins (more restrictive)
MergeSensitive(existing, r) ==
    IF existing.Sensitive \/ r.Sensitive THEN TRUE ELSE existing.Sensitive

\* a merge where a later non-empty value overwrites
FillStringOverwrite(old, new) == IF new # EmptyStr THEN new ELSE old

\* Fill in missing metadata: a string field
FillString(old, new) == IF old = EmptyStr /\ new # EmptyStr THEN new ELSE old

\* Fill in missing metadata: the validator
FillValidate(old, new) == IF old = "nil" /\ new # "nil" THEN new ELSE old

\* merged, as stored in reg[r.Name] when the name is already registered
Merge(existing, r) ==
    [Name |-> existing.Name,
     Source |-> FillString(existing.Source, r.Source),
     Description |-> FillString(existing.Description, r.Description),
     Optional |-> MergeOptional(existing, r),
     Default |-> FillString(existing.Default, r.Default),
     Validate |-> FillValidate(existing.Validate, r.Validate),
     Sensitive |-> MergeSensitive(existing, r)]

\* a store of the declaration as passed, whatever is registered
MergedOverwrite(registry, r) == r

\* the registry entry after Check's first critical section
Merged(registry, r) ==
    IF r.Name \in DOMAIN registry THEN Merge(registry[r.Name], r) ELSE r

(***************************************************************************)
(* Check, lines 129-145: load and validate.                                *)
(***************************************************************************)
\* os.LookupEnv(name) on environment e, a map from the names set to values
LookupEnv(e, name) ==
    IF name \in DOMAIN e THEN [val |-> e[name], ok |-> TRUE]
    ELSE [val |-> EmptyStr, ok |-> FALSE]

\* a load that never falls back to the default
LoadNoDefault(e, r) == LookupEnv(e, r.Name)

\* val, ok after the default is applied
Load(e, r) ==
    LET l == LookupEnv(e, r.Name)
    IN IF ~l.ok /\ r.Default # EmptyStr THEN [val |-> r.Default, ok |-> TRUE] ELSE l

\* a Check that calls the validator whether or not there is a value
ValidatesAbsent(e, r) == r.Validate # "nil"

\* whether Check calls r.Validate
Validates(e, r) == Load(e, r).ok /\ r.Validate # "nil"

\* res, as built by Check
Resolve(e, r) ==
    LET l == Load(e, r)
        verr == IF Validates(e, r) THEN ApplyValidator(r.Validate, l.val) ELSE NilErr
    IN Result(r, l.ok, l.val, verr)

(***************************************************************************)
(* Report, lines 198-255.                                                  *)
(***************************************************************************)
\* a count of every result that is missing or invalid, optional ones included
CountsUnusable(res) == ~res.Present \/ ~res.Err.nil

\* whether the loop body runs missing++ for res
CountsMissing(res) ==
    IF ~res.Present /\ ~res.Requirement.Optional THEN TRUE
    ELSE IF ~res.Err.nil THEN ~res.Requirement.Optional
    ELSE FALSE

\* status
Status(res) ==
    IF ~res.Present /\ ~res.Requirement.Optional THEN StrMissing
    ELSE IF ~res.Err.nil THEN StrInvalid
    ELSE StrOk

\* the last MaskSuffix characters of a sensitive value, after the mask
MaskedValue(v) ==
    IF Len(v) >= MaskSuffix
    THEN StrMask \o SubSeq(v, Len(v) - MaskSuffix + 1, Len(v))
    ELSE StrMask

\* a non-sensitive value, cut after TruncateKeep characters when long
ShownValue(v) ==
    IF Len(v) > TruncateOver
    THEN SubSeq(v, 1, TruncateKeep) \o StrEllipsisClose
    ELSE v \o StrClose

\* details
Details(res, showValues) ==
    IF ~res.Present /\ ~res.Requirement.Optional THEN res.Requirement.Description
    ELSE IF ~res.Err.nil THEN StrErrorPrefix \o res.Err.msg
    ELSE IF showValues /\ res.Present /\ ~res.Requirement.Sensitive
        THEN res.Requirement.Description \o StrValueOpen \o ShownValue(res.Value)
    ELSE IF showValues /\ res.Present /\ res.Requirement.Sensitive
        THEN res.Requirement.Description \o StrValueOpen \o MaskedValue(res.Value) \o StrClose
    ELSE res.Requirement.Description

\* fmt.Fprintf(w, "%-20s %-12s %-8s %-9s %-8s %s\n", ...)
Line(c1, c2, c3, c4, c5, c6) ==
    PadRight(c1, WidthEnv) \o <<Space>> \o PadRight(c2, WidthSource) \o <<Space>>
    \o PadRight(c3, WidthRequired) \o <<Space>> \o PadRight(c4, WidthSensitive)
    \o <<Space>> \o PadRight(c5, WidthStatus) \o <<Space>> \o c6 \o <<Newline>>

\* the row written for one result
Row(res, showValues) ==
    Line(res.Requirement.Name, res.Requirement.Source,
         IF ~res.Requirement.Optional THEN StrYes ELSE StrNo,
         IF res.Requirement.Sensitive THEN StrYes ELSE StrNo,
         Status(res), Details(res, showValues))

\* the two header lines
Header ==
    << Line(HdrENV, HdrSOURCE, HdrREQUIRED, HdrSENSITIVE, HdrSTATUS, HdrDETAILS),
       Line(Repeat(Dash, WidthEnv), Repeat(Dash, WidthSource), Repeat(Dash, WidthRequired),
            Repeat(Dash, WidthSensitive), Repeat(Dash, WidthStatus), Repeat(Dash, 20)) >>

RECURSIVE MissingCount(_)
\* missing, after the loop over results
MissingCount(results) ==
    IF results = << >> THEN 0
    ELSE MissingCount(Tail(results)) + (IF CountsMissing(Head(results)) THEN 1 ELSE 0)

\* Report(w, results): the lines written to w and the count returned
Report(results, showValues) ==
    [lines |-> Header \o [i \in 1..Len(results) |-> Row(results[i], showValues)],
     missing |-> MissingCount(results)]

\* missing > 0 in MustValidate
MustExit(missing) == missing > 0

(***************************************************************************)
(* The inputs of the registry model: the names, the declarations callers   *)
(* pass to Check, and the process environment.                             *)
(***************************************************************************)
\* "DB"
NameDB == <<68, 66>>
\* "PORT"
NamePORT == <<80, 79, 82, 84>>
Names == {NameDB, NamePORT}
\* "db", "web"
SrcDb == <<100, 98>>
SrcWeb == <<119, 101, 98>>
\* "A", "B"
DescA == <<65>>
DescB == <<66>>
\* "80", " "
Default80 == <<56, 48>>
DefaultBlank == <<32>>
\* "8080", "x"
Val8080 == <<56, 48, 56, 48>>
ValX == <<120>>

\* a required declaration with a validator, as in the tests and the README
DeclRequired(n) == Requirement(n, SrcDb, DescA, FALSE, EmptyStr, "Port", FALSE)
\* an optional, sensitive declaration with a default and another validator
DeclOptional(n) == Requirement(n, SrcWeb, DescB, TRUE, Default80, "NotEmpty", TRUE)
\* an optional declaration with no metadata but a blank default
DeclBare(n) == Requirement(n, EmptyStr, EmptyStr, TRUE, DefaultBlank, "nil", FALSE)

\* an optional declaration with nothing else
DeclPlain(n) == Requirement(n, EmptyStr, EmptyStr, TRUE, EmptyStr, "nil", FALSE)

\* the declarations a caller may pass to Check
Decls ==
    UNION {{DeclRequired(n), DeclOptional(n), DeclBare(n), DeclPlain(n)} : n \in Names}
\* the one declaration of callers that race on a single requirement
RaceDecls == {DeclRequired(NameDB)}

\* the environments of the process: nothing set, or DB=8080 (a value every
\* validator accepts) and PORT=x (a value Port rejects)
EnvUnset == [n \in {} |-> EmptyStr]
EnvSet == [n \in Names |-> IF n = NameDB THEN Val8080 ELSE ValX]
Envs == {EnvUnset, EnvSet}

Procs == 1..NumProcs

(***************************************************************************)
(* State.                                                                  *)
(***************************************************************************)
VARIABLES
    reg,        \* var reg: map from name to the canonical Requirement
    cache,      \* var cache: map from name to Result
    frozen,     \* var frozen atomic.Bool
    muW,        \* var mu: the goroutine holding the write lock, 0 when none
    muR,        \* var mu: the goroutines holding a read lock
    env,        \* the environment of the process
    exited,     \* the process has called os.Exit(2)
    stack,      \* per goroutine, its call stack of frames, bottom first
    ret,        \* what the step just taken returned from a top-level call, if it did
    ops,        \* the number of top-level calls made so far
    callers,    \* "concurrent": calls overlap freely; "serial": one call at a time
    envReads,   \* history: os.LookupEnv calls per name since the last Reset
    valCalls,   \* history: validator calls per name since the last Reset
    returned,   \* history: the Results Check returned per name since the last Reset
    hist,       \* history: the declarations merged per name since the last Reset, in order
    resets,     \* history: the number of Reset calls
    raced,      \* history: some Reset cleared the registry while a Check was in flight
    rpResults,  \* ReportSpec: the results handed to Report
    rpShow,     \* ReportSpec: ENVREQ_SHOW_VALUES == "1"
    rpOut,      \* ReportSpec: what Report wrote and returned
    pvIn,       \* PortSpec: the string handed to Port
    pvOut       \* PortSpec: the errors Port has returned, none or one

vars == <<reg, cache, frozen, muW, muR, env, exited, stack, ret, ops, callers,
          envReads, valCalls, returned, hist, resets, raced, rpResults, rpShow,
          rpOut,
          pvIn, pvOut>>

registryVars == <<reg, cache, frozen, muW, muR, env, exited, stack, ret, ops, callers,
                  envReads, valCalls, returned, hist, resets, raced>>
\* the inputs and outputs of Report and of the validators called on their own
reportVars == <<rpResults, rpShow, rpOut, pvIn, pvOut>>

(***************************************************************************)
(* Frames and returns.                                                     *)
(***************************************************************************)
\* a frame of function fn at position pc; arg is Check's parameter as passed,
\* r the local r, res the local res, out/unchecked/results the locals of
\* CheckAll and of its callers, name the parameter of Value; snap and epoch
\* record the names CheckAll's loop over reg visited and the number of Resets
\* at that moment
Frame(fn, pc, arg) ==
    [fn |-> fn, pc |-> pc, arg |-> arg, r |-> arg, res |-> ZeroResult,
     out |-> {}, unchecked |-> {}, results |-> << >>, snap |-> {}, epoch |-> 0]

NoRet ==
    [p |-> 0, op |-> "none", kind |-> "none", arg |-> ZeroRequirement, res |-> ZeroResult,
     results |-> << >>, val |-> EmptyStr, ok |-> FALSE, missing |-> 0]

Idle(p) == stack[p] = << >>
Top(p) == stack[p][Len(stack[p])]
At(p, fn, pc) == ~Idle(p) /\ Top(p).fn = fn /\ Top(p).pc = pc

\* the stack of p with its top frame replaced
WithTop(p, f) == [stack[p] EXCEPT ![Len(stack[p])] = f]
\* the stack of p without its top frame
Popped(p) == SubSeq(stack[p], 1, Len(stack[p]) - 1)

\* the bottom frame names the top-level call
TopLevel(p) == stack[p][1]

\* a frame returns v to the frame below it, which stores it with Store(caller, v)
ReturnTo(p, updatedCaller) ==
    SubSeq(stack[p], 1, Len(stack[p]) - 2) \o <<updatedCaller>>
Caller(p) == stack[p][Len(stack[p]) - 1]

\* return res from Check: to the caller's frame, or out of the top-level call
CheckReturns(p, res) ==
    /\ returned' = [returned EXCEPT ![Top(p).arg.Name] = @ \cup {res}]
    /\ IF Len(stack[p]) = 1
       THEN /\ stack' = [stack EXCEPT ![p] = << >>]
            /\ ret' = [NoRet EXCEPT !.p = p, !.op = "Check", !.kind = "return",
                        !.arg = Top(p).arg, !.res = res]
       ELSE \* res := Check(req); out = append(out, res)
            /\ stack' = [stack EXCEPT ![p] =
                            ReturnTo(p, [Caller(p) EXCEPT !.out = @ \cup {res}])]
            /\ ret' = NoRet

\* panic(...): no frame recovers, the goroutine's stack unwinds
Panics(p) ==
    /\ stack' = [stack EXCEPT ![p] = << >>]
    /\ ret' = [NoRet EXCEPT !.p = p, !.op = TopLevel(p).fn, !.kind = "panic",
                        !.arg = TopLevel(p).arg]

\* the callers make at most MaxOps calls, in a serial run at most MaxSeqOps
\* calls, one at a time, and in a race on one requirement at most MaxRaceOps
MayCall(p) ==
    /\ ~exited
    /\ Idle(p)
    /\ IF callers = "serial"
       THEN ops < MaxSeqOps /\ \A q \in Procs : Idle(q)
       ELSE IF callers = "racing" THEN ops < MaxRaceOps
       ELSE ops < MaxOps

\* the declarations the callers pass to Check
Declared == IF callers = "racing" THEN RaceDecls ELSE Decls

\* a goroutine takes a step of the call it is in
Runs(p, fn, pc) == ~exited /\ At(p, fn, pc)

\* a goroutine starts a top-level call
Calls(p, frames) ==
    /\ MayCall(p)
    /\ ops' = ops + 1
    /\ stack' = [stack EXCEPT ![p] = frames]
    /\ ret' = NoRet

\* mu.RLock()
RLock(p) == muW = 0 /\ muR' = muR \cup {p} /\ muW' = muW
\* an RUnlock that leaves the read lock held
RUnlockLeaks(p) == p \in muR /\ muR' = muR /\ muW' = muW
\* mu.RUnlock()
RUnlock(p) == p \in muR /\ muR' = muR \ {p} /\ muW' = muW
\* mu.Lock()
Lock(p) == muW = 0 /\ muR = {} /\ muW' = p /\ muR' = muR
\* mu.Unlock()
Unlock(p) == muW = p /\ muW' = 0 /\ muR' = muR

Goto(p, pc) == stack' = [stack EXCEPT ![p] = WithTop(p, [Top(p) EXCEPT !.pc = pc])]

history == <<envReads, valCalls, returned, hist, resets, raced>>

(***************************************************************************)
(* Check, lines 56-152.                                                    *)
(***************************************************************************)
\* Check(r) is called
CallCheck(p) ==
    \E r \in Declared :
        /\ Calls(p, <<Frame("Check", "start", r)>>)
        /\ UNCHANGED <<reg, cache, frozen, muW, muR, env, exited, history, callers, reportVars>>

\* if frozen.Load()
CheckLoadFrozen(p) ==
    /\ Runs(p, "Check", "start")
    /\ Goto(p, IF frozen THEN "gate_rlock" ELSE "merge_lock")
    /\ UNCHANGED <<reg, cache, frozen, muW, muR, env, exited, ops, history, callers, reportVars>>
    /\ ret' = NoRet

\* mu.RLock() of the freeze gate
CheckGateRLock(p) ==
    /\ Runs(p, "Check", "gate_rlock")
    /\ RLock(p)
    /\ Goto(p, "gate")
    /\ UNCHANGED <<reg, cache, frozen, env, exited, ops, history, callers, reportVars>>
    /\ ret' = NoRet

\* a gate that lets every declaration through
GateOpen(exists, r) == TRUE

\* a gate that lets only known names through
GateKnownOnly(exists, r) == exists

\* whether the freeze gate lets declaration r through, given exists
GatePasses(exists, r) == exists \/ r.Optional

\* _, exists := reg[r.Name]; mu.RUnlock(); a new required name starts the
\* panic path by calling CheckAll(), any other declaration goes on to the merge
CheckGate(p) ==
    /\ Runs(p, "Check", "gate")
    /\ RUnlock(p)
    /\ IF GatePasses(Top(p).r.Name \in DOMAIN reg, Top(p).r)
       THEN Goto(p, "merge_lock")
       ELSE stack' = [stack EXCEPT ![p] =
                        WithTop(p, [Top(p) EXCEPT !.pc = "panic_report"])
                        \o <<Frame("CheckAll", "rlock", ZeroRequirement)>>]
    /\ UNCHANGED <<reg, cache, frozen, env, exited, ops, history, callers, reportVars>>
    /\ ret' = NoRet

\* Report(os.Stderr, results); panic(...)
CheckPanic(p) ==
    /\ Runs(p, "Check", "panic_report")
    /\ Panics(p)
    /\ UNCHANGED <<reg, cache, frozen, muW, muR, env, exited, ops, history, callers, reportVars>>

\* mu.Lock() of the merge
CheckMergeLock(p) ==
    /\ Runs(p, "Check", "merge_lock")
    /\ Lock(p)
    /\ Goto(p, "merge")
    /\ UNCHANGED <<reg, cache, frozen, env, exited, ops, history, callers, reportVars>>
    /\ ret' = NoRet

\* the merge into reg, r = merged, mu.Unlock()
CheckMerge(p) ==
    /\ Runs(p, "Check", "merge")
    /\ LET r == Top(p).r
           m == Merged(reg, r)
       IN /\ reg' = MapSet(reg, r.Name, m)
          /\ stack' = [stack EXCEPT ![p] =
                          WithTop(p, [Top(p) EXCEPT !.pc = "cache_rlock", !.r = m])]
          /\ hist' = [hist EXCEPT ![r.Name] = Append(@, r)]
    /\ Unlock(p)
    /\ UNCHANGED <<cache, frozen, env, exited, ops, envReads, valCalls, returned, resets, raced, callers, reportVars>>
    /\ ret' = NoRet

\* mu.RLock() of the cache check
CheckCacheRLock(p) ==
    /\ Runs(p, "Check", "cache_rlock")
    /\ RLock(p)
    /\ Goto(p, "cache_check")
    /\ UNCHANGED <<reg, cache, frozen, env, exited, ops, history, callers, reportVars>>
    /\ ret' = NoRet

\* a Check that never finds its name in the cache
CacheHitNever(c, name) == FALSE

\* _, ok := cache[name]
CacheHit(c, name) == name \in DOMAIN c

\* if cached, ok := cache[r.Name]; ok { mu.RUnlock(); return cached }; mu.RUnlock()
CheckCached(p) ==
    /\ Runs(p, "Check", "cache_check")
    /\ RUnlock(p)
    /\ IF CacheHit(cache, Top(p).r.Name)
       THEN CheckReturns(p, cache[Top(p).r.Name])
       ELSE Goto(p, "load") /\ ret' = NoRet /\ returned' = returned
    /\ UNCHANGED <<reg, cache, frozen, env, exited, ops, envReads, valCalls, hist, resets, raced, callers, reportVars>>

\* os.LookupEnv, the default, r.Validate(val), res := Result{...}
CheckLoad(p) ==
    /\ Runs(p, "Check", "load")
    /\ LET r == Top(p).r
       IN /\ stack' = [stack EXCEPT ![p] =
                          WithTop(p, [Top(p) EXCEPT !.pc = "store_lock",
                                                    !.res = Resolve(env, r)])]
          /\ envReads' = [envReads EXCEPT ![r.Name] = @ + 1]
          /\ valCalls' = [valCalls EXCEPT ![r.Name] =
                              IF Validates(env, r) THEN @ + 1 ELSE @]
    /\ UNCHANGED <<reg, cache, frozen, muW, muR, env, exited, ops, returned, hist, resets, raced, callers, reportVars>>
    /\ ret' = NoRet

\* mu.Lock() of the store
CheckStoreLock(p) ==
    /\ Runs(p, "Check", "store_lock")
    /\ Lock(p)
    /\ Goto(p, "store")
    /\ UNCHANGED <<reg, cache, frozen, env, exited, ops, history, callers, reportVars>>
    /\ ret' = NoRet

\* cache[r.Name] = res; mu.Unlock(); return res
CheckStore(p) ==
    /\ Runs(p, "Check", "store")
    /\ cache' = MapSet(cache, Top(p).r.Name, Top(p).res)
    /\ Unlock(p)
    /\ CheckReturns(p, Top(p).res)
    /\ UNCHANGED <<reg, frozen, env, exited, ops, envReads, valCalls, hist, resets, raced, callers, reportVars>>

(***************************************************************************)
(* Value, lines 155-163.                                                   *)
(***************************************************************************)
\* Value(name) is called
CallValue(p) ==
    \E n \in Names :
        /\ Calls(p, <<Frame("Value", "rlock", [ZeroRequirement EXCEPT !.Name = n])>>)
        /\ UNCHANGED <<reg, cache, frozen, muW, muR, env, exited, history, callers, reportVars>>

\* mu.RLock()
ValueRLock(p) ==
    /\ Runs(p, "Value", "rlock")
    /\ RLock(p)
    /\ Goto(p, "read")
    /\ UNCHANGED <<reg, cache, frozen, env, exited, ops, history, callers, reportVars>>
    /\ ret' = NoRet

\* a Value that reports the declared default of a cached name
ValueOfDefault(c, name) ==
    IF name \in DOMAIN c THEN [val |-> c[name].Requirement.Default, ok |-> TRUE]
    ELSE [val |-> EmptyStr, ok |-> FALSE]

\* what Value(name) returns on cache c
ValueOf(c, name) ==
    IF name \in DOMAIN c THEN [val |-> c[name].Value, ok |-> c[name].Present]
    ELSE [val |-> EmptyStr, ok |-> FALSE]

\* the lookup in cache, the deferred mu.RUnlock(), the return
ValueRead(p) ==
    /\ Runs(p, "Value", "read")
    /\ RUnlock(p)
    /\ stack' = [stack EXCEPT ![p] = << >>]
    /\ LET v == ValueOf(cache, Top(p).arg.Name)
       IN ret' = [NoRet EXCEPT !.p = p, !.op = "Value", !.kind = "return",
                        !.arg = Top(p).arg,
                        !.val = v.val, !.ok = v.ok]
    /\ UNCHANGED <<reg, cache, frozen, env, exited, ops, history, callers, reportVars>>

(***************************************************************************)
(* CheckAll, lines 166-194.                                                *)
(***************************************************************************)
\* CheckAll() is called
CallCheckAll(p) ==
    /\ Calls(p, <<Frame("CheckAll", "rlock", ZeroRequirement)>>)
    /\ UNCHANGED <<reg, cache, frozen, muW, muR, env, exited, history, callers, reportVars>>

\* mu.RLock()
CheckAllRLock(p) ==
    /\ Runs(p, "CheckAll", "rlock")
    /\ RLock(p)
    /\ Goto(p, "snapshot")
    /\ UNCHANGED <<reg, cache, frozen, env, exited, ops, history, callers, reportVars>>
    /\ ret' = NoRet

\* out, after the loop over reg: the cached results
SnapshotOut(registry, c) == {c[n] : n \in DOMAIN registry \cap DOMAIN c}
\* unchecked, after the loop over reg: the requirements with no cached result
SnapshotUnchecked(registry, c) == {registry[n] : n \in DOMAIN registry \ DOMAIN c}

\* the loop over reg, mu.RUnlock()
CheckAllSnapshot(p) ==
    /\ Runs(p, "CheckAll", "snapshot")
    /\ RUnlock(p)
    /\ stack' = [stack EXCEPT ![p] =
                    WithTop(p, [Top(p) EXCEPT !.pc = "loop",
                                              !.out = SnapshotOut(reg, cache),
                                              !.unchecked = SnapshotUnchecked(reg, cache),
                                              !.snap = DOMAIN reg,
                                              !.epoch = resets])]
    /\ UNCHANGED <<reg, cache, frozen, env, exited, ops, history, callers, reportVars>>
    /\ ret' = NoRet

RECURSIVE SortByName(_)
\* sort.Slice(out, func(i, j) { return out[i].Name < out[j].Name }), on results
\* of pairwise different names
SortByName(out) ==
    IF out = {} THEN << >>
    ELSE LET first == CHOOSE x \in out :
                        \A y \in out : ~StrLess(y.Requirement.Name, x.Requirement.Name)
         IN <<first>> \o SortByName(out \ {first})

\* the loop over unchecked: res := Check(req) for the next req (in the order of
\* the iteration over the map: any order); after the last one, the sort and the
\* return, to the caller's frame or out of the top-level call
CheckAllLoop(p) ==
    /\ Runs(p, "CheckAll", "loop")
    /\ IF Top(p).unchecked # {}
       THEN /\ \E req \in Top(p).unchecked :
                  stack' = [stack EXCEPT ![p] =
                               WithTop(p, [Top(p) EXCEPT !.unchecked = @ \ {req}])
                               \o <<Frame("Check", "start", req)>>]
            /\ ret' = NoRet
       ELSE LET sorted == SortByName(Top(p).out)
            IN IF Len(stack[p]) = 1
               THEN /\ stack' = [stack EXCEPT ![p] = << >>]
                    /\ ret' = [NoRet EXCEPT !.p = p, !.op = "CheckAll", !.kind = "return",
                                            !.results = sorted]
               ELSE /\ stack' = [stack EXCEPT ![p] =
                                    ReturnTo(p, [Caller(p) EXCEPT !.results = sorted])]
                    /\ ret' = NoRet
    /\ UNCHANGED <<reg, cache, frozen, muW, muR, env, exited, ops, history, callers, reportVars>>

(***************************************************************************)
(* MustValidate, lines 258-265.                                            *)
(***************************************************************************)
\* MustValidate() is called and calls CheckAll()
CallMustValidate(p) ==
    /\ Calls(p, <<Frame("MustValidate", "report", ZeroRequirement),
                  Frame("CheckAll", "rlock", ZeroRequirement)>>)
    /\ UNCHANGED <<reg, cache, frozen, muW, muR, env, exited, history, callers, reportVars>>

\* missing := Report(os.Stderr, results); if missing > 0 { os.Exit(2) }
MustValidateReport(p) ==
    /\ Runs(p, "MustValidate", "report")
    /\ LET missing == Report(Top(p).results, rpShow).missing
       IN /\ exited' = MustExit(missing)
          /\ ret' = [NoRet EXCEPT !.p = p, !.op = "MustValidate",
                        !.kind = IF MustExit(missing) THEN "exit" ELSE "return",
                        !.results = Top(p).results, !.missing = missing]
    /\ stack' = [stack EXCEPT ![p] = << >>]
    /\ UNCHANGED <<reg, cache, frozen, muW, muR, env, ops, history, callers, reportVars>>

(***************************************************************************)
(* Freeze, lines 272-275, and Reset, lines 278-285.                        *)
(***************************************************************************)
\* a Freeze that flips the flag
FreezeToggle(p) ==
    /\ MayCall(p)
    /\ ops' = ops + 1
    /\ frozen' = ~frozen
    /\ ret' = [NoRet EXCEPT !.p = p, !.op = "Freeze", !.kind = "return"]
    /\ UNCHANGED <<reg, cache, muW, muR, env, exited, stack, history, callers, reportVars>>

\* Freeze(): frozen.Store(true)
Freeze(p) ==
    /\ MayCall(p)
    /\ ops' = ops + 1
    /\ frozen' = TRUE
    /\ ret' = [NoRet EXCEPT !.p = p, !.op = "Freeze", !.kind = "return"]
    /\ UNCHANGED <<reg, cache, muW, muR, env, exited, stack, history, callers, reportVars>>

\* Reset() is called
CallReset(p) ==
    /\ Calls(p, <<Frame("Reset", "lock", ZeroRequirement)>>)
    /\ UNCHANGED <<reg, cache, frozen, muW, muR, env, exited, history, callers, reportVars>>

\* mu.Lock()
ResetLock(p) ==
    /\ Runs(p, "Reset", "lock")
    /\ Lock(p)
    /\ Goto(p, "clear")
    /\ UNCHANGED <<reg, cache, frozen, env, exited, ops, history, callers, reportVars>>
    /\ ret' = NoRet

\* some goroutine is inside Check, called directly or from CheckAll
CheckInFlight == \E q \in Procs : \E i \in 1..Len(stack[q]) : stack[q][i].fn = "Check"

NoCounts == [n \in Names |-> 0]
NoReturns == [n \in Names |-> {}]
NoHist == [n \in Names |-> << >>]

\* a Reset that leaves the result cache as it is
ResetKeepsCache(p) ==
    /\ Runs(p, "Reset", "clear")
    /\ reg' = EmptyMap
    /\ frozen' = FALSE
    /\ Unlock(p)
    /\ stack' = [stack EXCEPT ![p] = << >>]
    /\ ret' = [NoRet EXCEPT !.p = p, !.op = "Reset", !.kind = "return"]
    /\ envReads' = NoCounts
    /\ valCalls' = NoCounts
    /\ returned' = NoReturns
    /\ hist' = NoHist
    /\ resets' = resets + 1
    /\ raced' = (raced \/ CheckInFlight)
    /\ UNCHANGED <<cache, env, exited, ops, callers, reportVars>>

\* reg = map{}; cache = map{}; frozen.Store(false); the deferred mu.Unlock()
ResetClear(p) ==
    /\ Runs(p, "Reset", "clear")
    /\ reg' = EmptyMap
    /\ cache' = EmptyMap
    /\ frozen' = FALSE
    /\ Unlock(p)
    /\ stack' = [stack EXCEPT ![p] = << >>]
    /\ ret' = [NoRet EXCEPT !.p = p, !.op = "Reset", !.kind = "return"]
    /\ envReads' = NoCounts
    /\ valCalls' = NoCounts
    /\ returned' = NoReturns
    /\ hist' = NoHist
    /\ resets' = resets + 1
    /\ raced' = (raced \/ CheckInFlight)
    /\ UNCHANGED <<env, exited, ops, callers, reportVars>>

(***************************************************************************)
(* The registry under concurrent callers.                                  *)
(***************************************************************************)
NoOutput == [lines |-> << >>, missing |-> 0]

\* no validator has been called on its own
NoValidation == pvIn = EmptyStr /\ pvOut = << >>

InitRegistry ==
    /\ reg = EmptyMap
    /\ cache = EmptyMap
    /\ frozen = FALSE
    /\ muW = 0
    /\ muR = {}
    /\ exited = FALSE
    /\ stack = [p \in Procs |-> << >>]
    /\ ret = NoRet
    /\ ops = 0
    /\ envReads = NoCounts
    /\ valCalls = NoCounts
    /\ returned = NoReturns
    /\ hist = NoHist
    /\ resets = 0
    /\ raced = FALSE

Init ==
    /\ InitRegistry
    /\ callers = "concurrent"
    /\ env \in Envs
    /\ rpResults = << >>
    /\ rpShow = FALSE
    /\ rpOut = NoOutput
    /\ NoValidation

Next ==
    \E p \in Procs :
        \/ CallCheck(p) \/ CallValue(p) \/ CallCheckAll(p) \/ CallMustValidate(p)
        \/ Freeze(p) \/ CallReset(p)
        \/ CheckLoadFrozen(p) \/ CheckGateRLock(p) \/ CheckGate(p) \/ CheckPanic(p)
        \/ CheckMergeLock(p) \/ CheckMerge(p) \/ CheckCacheRLock(p) \/ CheckCached(p)
        \/ CheckLoad(p) \/ CheckStoreLock(p) \/ CheckStore(p)
        \/ ValueRLock(p) \/ ValueRead(p)
        \/ CheckAllRLock(p) \/ CheckAllSnapshot(p) \/ CheckAllLoop(p)
        \/ MustValidateReport(p)
        \/ ResetLock(p) \/ ResetClear(p)

Spec == Init /\ [][Next]_vars

(***************************************************************************)
(* The registry with one call at a time: a call starts only when no other  *)
(* call is in flight.                                                      *)
(***************************************************************************)
SeqInit ==
    /\ InitRegistry
    /\ callers = "serial"
    /\ env \in Envs
    /\ rpResults = << >>
    /\ rpShow = FALSE
    /\ rpOut = NoOutput
    /\ NoValidation

SeqSpec == SeqInit /\ [][Next]_vars

\* concurrent callers that all declare the same requirement
RaceInit ==
    /\ InitRegistry
    /\ callers = "racing"
    /\ env = EnvUnset
    /\ rpResults = << >>
    /\ rpShow = FALSE
    /\ rpOut = NoOutput
    /\ NoValidation

RaceSpec == RaceInit /\ [][Next]_vars

\* serial callers whose calls run to their end: a goroutine that is in a call
\* and can take its next step takes it
FairSeqSpec == SeqSpec /\ WF_vars(Next)

\* the next step of the call goroutine p is in
Step(p) ==
    \/ CheckLoadFrozen(p) \/ CheckGateRLock(p) \/ CheckGate(p) \/ CheckPanic(p)
    \/ CheckMergeLock(p) \/ CheckMerge(p) \/ CheckCacheRLock(p) \/ CheckCached(p)
    \/ CheckLoad(p) \/ CheckStoreLock(p) \/ CheckStore(p)
    \/ ValueRLock(p) \/ ValueRead(p)
    \/ CheckAllRLock(p) \/ CheckAllSnapshot(p) \/ CheckAllLoop(p)
    \/ MustValidateReport(p)
    \/ ResetLock(p) \/ ResetClear(p)

\* racing callers, each goroutine scheduled as long as it can run: a
\* goroutine whose next step stays possible takes it; nothing obliges a
\* caller to start a call
FairRaceSpec == RaceSpec /\ \A p \in Procs : WF_vars(Step(p))
(***************************************************************************)
(* Report and the exit of MustValidate as functions of the results: the    *)
(* results are those Check builds, for declarations and environment values *)
(* drawn from bounded sets.                                                *)
(***************************************************************************)
\* the characters "1" and "2" of environment values
ValueChars == {49, 50}
\* every value of at most MaxValLen characters, and one longer than TruncateOver
RichValues ==
    UNION {[1..n -> ValueChars] : n \in 0..MaxValLen} \cup {Repeat(49, TruncateOver + 1)}

\* the declarations of one name: every flag, validator and default
RichDecls ==
    {Requirement(NameDB, SrcDb, DescA, o, d, v, s) :
        o \in BOOLEAN, d \in {EmptyStr, Default80}, v \in ValidatorIds, s \in BOOLEAN}

\* an environment where name is set to v
EnvWith(name, v) == [n \in {name} |-> v]

\* what Check builds for one declaration in one environment
RichOutcomes ==
    {Resolve(EnvUnset, r) : r \in RichDecls}
    \cup {Resolve(EnvWith(NameDB, v), r) : v \in RichValues, r \in RichDecls}

\* a few outcomes of each status, to build lists from
ListOutcomes ==
    {Resolve(e, r) : e \in {EnvUnset, EnvWith(NameDB, Val8080), EnvWith(NameDB, ValX),
                            EnvWith(NameDB, EmptyStr)},
                     r \in {DeclRequired(NameDB), DeclOptional(NameDB), DeclBare(NameDB)}}

ReportInputs ==
    {<<x>> : x \in RichOutcomes}
    \cup UNION {[1..n -> ListOutcomes] : n \in 0..MaxResults}

ReportInit ==
    /\ InitRegistry
    /\ callers = "serial"
    /\ env = EnvUnset
    /\ rpResults \in ReportInputs
    /\ rpShow \in BOOLEAN
    /\ rpOut = NoOutput
    /\ NoValidation

\* missing := Report(os.Stderr, results); if missing > 0 { os.Exit(2) }
ReportAndExit ==
    /\ rpOut = NoOutput
    /\ rpOut' = Report(rpResults, rpShow)
    /\ exited' = MustExit(rpOut'.missing)
    /\ UNCHANGED <<reg, cache, frozen, muW, muR, env, stack, ret, ops, callers,
                   history, rpResults, rpShow, pvIn, pvOut>>

ReportNext == ReportAndExit

ReportSpec == ReportInit /\ [][ReportNext]_vars

(***************************************************************************)
(* Port as a function of its argument: strings of up to MaxPortInputLen    *)
(* characters over the decimal digits and one other character.             *)
(***************************************************************************)
\* the digits "0".."9" and "x"
PortChars == 48..57 \cup {120}
PortInputs == UNION {[1..n -> PortChars] : n \in 0..MaxPortInputLen}

PortInit ==
    /\ InitRegistry
    /\ callers = "serial"
    /\ env = EnvUnset
    /\ rpResults = << >>
    /\ rpShow = FALSE
    /\ rpOut = NoOutput
    /\ pvIn \in PortInputs
    /\ pvOut = << >>

\* err := Port(v)
ValidatePort ==
    /\ pvOut = << >>
    /\ pvOut' = <<Port(pvIn)>>
    /\ UNCHANGED <<registryVars, rpResults, rpShow, rpOut, pvIn>>

PortNext == ValidatePort

PortSpec == PortInit /\ [][PortNext]_vars

(***************************************************************************)
(* Properties.                                                             *)
(***************************************************************************)

\* C1 (resolve-once under a race): as long as Reset has not been called, each
\* name is read from the environment at most once and validated at most once,
\* a name for which Check has returned has been read exactly once, and all the
\* Results Check has returned for the name are one and the same.
C1_ResolveOnce ==
    resets = 0 =>
        \A n \in Names :
            /\ envReads[n] <= 1
            /\ valCalls[n] <= 1
            /\ Cardinality(returned[n]) <= 1
            /\ (returned[n] # {} => envReads[n] = 1)

\* C2 (outcome immutability): a step that is not the clearing step of Reset
\* leaves every entry of the result cache in place and unchanged.
C2_CacheImmutable ==
    [][resets' = resets =>
          \A n \in DOMAIN cache : n \in DOMAIN cache' /\ cache'[n] = cache[n]]_vars

\* the step just taken returned from a top-level Check of name n
CheckReturned(n) == ret.op = "Check" /\ ret.kind = "return" /\ ret.arg.Name = n

\* C3 (idempotent resolution, calls that do not overlap): when calls are made
\* one at a time, every Check of a name returns the Result of the first one
\* (all Results returned for the name since the last Reset are the same one,
\* the cached one), and the name is read from the environment and validated
\* at most once, whatever the later declarations are and although they are
\* merged into the requirement table.
C3_IdempotentResolution ==
    \A n \in Names :
        /\ Cardinality(returned[n]) <= 1
        /\ envReads[n] <= 1
        /\ valCalls[n] <= 1
        /\ returned[n] # {} => n \in DOMAIN cache /\ returned[n] = {cache[n]}
        /\ CheckReturned(n) => ret.res \in returned[n]

\* a second Check of the name has just returned the first Result although its
\* declaration differs from the first one and has changed the canonical requirement
C3_Witness ==
    \E n \in Names :
        /\ CheckReturned(n)
        /\ Len(hist[n]) = 2
        /\ hist[n][2] = ret.arg
        /\ hist[n][1].Optional # hist[n][2].Optional
        /\ hist[n][1].Default # hist[n][2].Default
        /\ hist[n][1].Validate # hist[n][2].Validate
        /\ hist[n][1].Sensitive # hist[n][2].Sensitive
        /\ reg[n] # hist[n][1]
        /\ ret.res.Requirement = hist[n][1]
        /\ ret.res = cache[n]
        /\ envReads[n] = 1

RECURSIVE SerialMerge(_)
\* the merge rule applied to a non-empty sequence of declarations, one after another
SerialMerge(ds) ==
    IF Len(ds) = 1 THEN ds[1]
    ELSE Merge(SerialMerge(SubSeq(ds, 1, Len(ds) - 1)), ds[Len(ds)])

\* the orders of k declarations
Orders(k) == {f \in [1..k -> 1..k] : \A i, j \in 1..k : f[i] = f[j] => i = j}

\* a Check of a top-level call of p has merged its declaration and not returned
MergedInFlight(p) ==
    /\ ~Idle(p)
    /\ Len(stack[p]) = 1
    /\ Top(p).fn = "Check"
    /\ Top(p).pc \in {"cache_rlock", "cache_check", "load", "store_lock", "store"}

\* C4 (merge serializability): in every reachable state, a name is in the
\* requirement table exactly when some declaration of it has been merged since
\* the last Reset, and its entry is the merge rule applied, one declaration after
\* another, to all those declarations in some order: none is lost, none is torn.
C4_MergeSerializable ==
    \A n \in Names :
        IF hist[n] = << >> THEN n \notin DOMAIN reg
        ELSE /\ n \in DOMAIN reg
             /\ \E f \in Orders(Len(hist[n])) :
                    reg[n] = SerialMerge([i \in 1..Len(hist[n]) |-> hist[n][f[i]]])

\* two overlapping Checks of one name, with different declarations, have both
\* merged, and the entry is neither of the two declarations
C4_Witness ==
    \E p, q \in Procs :
        /\ p # q
        /\ MergedInFlight(p) /\ MergedInFlight(q)
        /\ Top(p).arg.Name = Top(q).arg.Name
        /\ Top(p).arg # Top(q).arg
        /\ hist[Top(p).arg.Name] = <<Top(p).arg, Top(q).arg>>
        /\ reg[Top(p).arg.Name] \notin {Top(p).arg, Top(q).arg}

\* C5, in a state: canonical optional is the AND of the optional flags of the
\* declarations merged since the last Reset, canonical sensitive the OR of
\* their sensitive flags
C5_Flags ==
    \A n \in DOMAIN reg :
        /\ hist[n] # << >>
        /\ reg[n].Optional = (\A i \in 1..Len(hist[n]) : hist[n][i].Optional)
        /\ reg[n].Sensitive = (\E i \in 1..Len(hist[n]) : hist[n][i].Sensitive)

\* C5, in a step other than Reset's: optional never goes from false to true,
\* sensitive never from true to false
C5_Step ==
    resets' = resets =>
        \A n \in DOMAIN reg :
            /\ n \in DOMAIN reg'
            /\ ~reg[n].Optional => ~reg'[n].Optional
            /\ reg[n].Sensitive => reg'[n].Sensitive

\* C5 (monotonic restriction): the flags are the AND and the OR of the merged
\* declarations' flags in every reachable state (so they do not depend on the
\* order of the declarations), and between Resets no step relaxes them.
C5_MonotonicRestriction == []C5_Flags /\ [][C5_Step]_vars

\* declarations of both flags in both values have been merged, the optional and
\* non-sensitive one first; the canonical requirement is required and sensitive
C5_Witness ==
    \E n \in DOMAIN reg :
        /\ Len(hist[n]) >= 2
        /\ hist[n][1].Optional /\ ~hist[n][1].Sensitive
        /\ \E i \in 2..Len(hist[n]) : ~hist[n][i].Optional
        /\ \E i \in 2..Len(hist[n]) : hist[n][i].Sensitive
        /\ hist[n][Len(hist[n])].Optional
        /\ ~reg[n].Optional /\ reg[n].Sensitive

\* the first value of vs that is not zero, zero when there is none
FirstSupplied(vs, zero) ==
    LET I == {i \in 1..Len(vs) : vs[i] # zero}
    IN IF I = {} THEN zero ELSE vs[CHOOSE i \in I : \A j \in I : i <= j]

\* C6, in a state: each metadata field of a canonical requirement is the value of
\* the earliest merged declaration that supplied one
C6_Fields ==
    \A n \in DOMAIN reg :
        LET h == hist[n]
            I == 1..Len(h)
        IN /\ reg[n].Description = FirstSupplied([i \in I |-> h[i].Description], EmptyStr)
           /\ reg[n].Source = FirstSupplied([i \in I |-> h[i].Source], EmptyStr)
           /\ reg[n].Default = FirstSupplied([i \in I |-> h[i].Default], EmptyStr)
           /\ reg[n].Validate = FirstSupplied([i \in I |-> h[i].Validate], "nil")

\* C6, in a step other than Reset's: a populated metadata field does not change
C6_Step ==
    resets' = resets =>
        \A n \in DOMAIN reg :
            /\ n \in DOMAIN reg'
            /\ reg[n].Description # EmptyStr => reg'[n].Description = reg[n].Description
            /\ reg[n].Source # EmptyStr => reg'[n].Source = reg[n].Source
            /\ reg[n].Default # EmptyStr => reg'[n].Default = reg[n].Default
            /\ reg[n].Validate # "nil" => reg'[n].Validate = reg[n].Validate

\* C6 (first-writer-wins metadata): description, source, default and validator
\* are those of the earliest merged declaration that supplied one, in every
\* reachable state, and once populated no step but Reset's changes them.
C6_FirstWriterWins == []C6_Fields /\ [][C6_Step]_vars

\* three declarations of a name have been merged: the first supplied only a
\* default, the second the other fields, the third other values for all four;
\* the canonical fields are the first's default and the second's other fields
C6_Witness ==
    \E n \in DOMAIN reg :
        LET h == hist[n]
        IN /\ Len(h) = 3
           /\ h[1].Description = EmptyStr /\ h[1].Source = EmptyStr /\ h[1].Validate = "nil"
           /\ h[1].Default # EmptyStr
           /\ h[2].Description # EmptyStr /\ h[2].Source # EmptyStr /\ h[2].Validate # "nil"
           /\ h[3].Description \notin {EmptyStr, h[2].Description}
           /\ h[3].Source \notin {EmptyStr, h[2].Source}
           /\ h[3].Validate \notin {"nil", h[2].Validate}
           /\ h[3].Default \notin {EmptyStr, h[1].Default}
           /\ reg[n].Description = h[2].Description
           /\ reg[n].Source = h[2].Source
           /\ reg[n].Validate = h[2].Validate
           /\ reg[n].Default = h[1].Default

\* p is in a top-level Check, at one of the given places of it
InCheck(p, pcs) == ~Idle(p) /\ TopLevel(p).fn = "Check" /\ TopLevel(p).pc \in pcs

\* Check has just been called by p with a required declaration of a name that
\* is not in the requirement table, and the registry is frozen
LateRequired(p) ==
    /\ InCheck(p, {"start"})
    /\ frozen
    /\ ~TopLevel(p).arg.Optional
    /\ TopLevel(p).arg.Name \notin DOMAIN reg

\* the step just taken was a panic out of Check
CheckPanicked == ret.op = "Check" /\ ret.kind = "panic"

\* the step just taken returned a Result from a top-level Check
CheckReturnedResult == ret.op = "Check" /\ ret.kind = "return"

\* C7, in a state: while the registry is frozen, a Check of a required
\* declaration whose name is not in the requirement table is before or at the
\* freeze gate or on the panic path, and the name has no cached Result; when it
\* has panicked the name is in neither map and no Result came back; and a Check
\* that returned a Result for a required declaration while frozen found the name
\* declared before
C7_Rejected ==
    /\ \A p \in Procs :
           (/\ InCheck(p, {"start", "gate_rlock", "gate", "panic_report", "merge_lock", "merge"})
            /\ frozen
            /\ ~TopLevel(p).arg.Optional
            /\ TopLevel(p).arg.Name \notin DOMAIN reg)
           => /\ TopLevel(p).pc \in {"start", "gate_rlock", "gate", "panic_report"}
              /\ TopLevel(p).arg.Name \notin DOMAIN cache
    /\ CheckPanicked =>
           /\ ret.arg.Name \notin DOMAIN reg
           /\ ret.arg.Name \notin DOMAIN cache
           /\ hist[ret.arg.Name] = << >>
           /\ returned[ret.arg.Name] = {}
           /\ ret.res = ZeroResult
    /\ (CheckReturnedResult /\ frozen /\ ~ret.arg.Optional) => Len(hist[ret.arg.Name]) >= 2

\* C7 (late-required violation): with non-overlapping calls, a Check called
\* while the registry is frozen, with a required declaration of a name that is
\* not in the requirement table, panics; it returns no Result, and the name is
\* neither added to the requirement table nor given a cached Result.
C7_LateRequiredAborts ==
    /\ []C7_Rejected
    /\ \A p \in Procs : LateRequired(p) ~> CheckPanicked

\* a Check of a required, undeclared name has just panicked in a frozen registry
\* that holds another name
C7_Witness ==
    /\ CheckPanicked
    /\ frozen
    /\ ~ret.arg.Optional
    /\ ret.arg.Name \notin DOMAIN reg
    /\ DOMAIN reg # {}

\* Check has just been called by p in any case but the late required one
NotLateRequired(p) ==
    /\ InCheck(p, {"start"})
    /\ ~frozen \/ TopLevel(p).arg.Optional \/ TopLevel(p).arg.Name \in DOMAIN reg

\* C8, in a state: a Check is on the panic path, or has panicked, only when the
\* registry is frozen, the declaration required and the name not in the table,
\* and no other operation panics; a Check that returned has its declaration
\* merged into the table as the latest one and returned the cached Result of the
\* name, which is the resolution of the name's first declaration
C8_OnlyLateRequired ==
    /\ \A p \in Procs :
           InCheck(p, {"panic_report"}) =>
               /\ frozen
               /\ ~TopLevel(p).arg.Optional
               /\ TopLevel(p).arg.Name \notin DOMAIN reg
    /\ ret.kind = "panic" =>
           /\ ret.op = "Check"
           /\ frozen
           /\ ~ret.arg.Optional
           /\ ret.arg.Name \notin DOMAIN reg
    /\ CheckReturnedResult =>
           /\ ret.arg.Name \in DOMAIN reg
           /\ ret.arg.Name \in DOMAIN cache
           /\ hist[ret.arg.Name] # << >>
           /\ hist[ret.arg.Name][Len(hist[ret.arg.Name])] = ret.arg
           /\ ret.res = cache[ret.arg.Name]
           /\ ret.res = Resolve(env, hist[ret.arg.Name][1])

\* C8 (no other abort): with non-overlapping calls, Check panics in no case but
\* (frozen, name not in the table, declaration required); in every other case,
\* a new optional name after Freeze and a known name after Freeze included, the
\* call merges the declaration, resolves and returns a Result.
C8_NoOtherAbort ==
    /\ []C8_OnlyLateRequired
    /\ \A p \in Procs : NotLateRequired(p) ~> CheckReturnedResult

\* in a frozen registry that holds another name, a Check of a new optional name
\* has added the name to the table and returned the resolution of its declaration
C8_Witness ==
    /\ CheckReturnedResult
    /\ frozen
    /\ ret.arg.Optional
    /\ hist[ret.arg.Name] = <<ret.arg>>
    /\ reg[ret.arg.Name] = ret.arg
    /\ ret.res = Resolve(env, ret.arg)
    /\ \E m \in DOMAIN reg : m # ret.arg.Name

\* Report has run on rpResults
Reported == rpOut # NoOutput

\* the results of the snapshot, by index, of each kind
RequiredAbsent == {i \in 1..Len(rpResults) :
                      ~rpResults[i].Requirement.Optional /\ ~rpResults[i].Present}
RequiredInvalid == {i \in 1..Len(rpResults) :
                      /\ ~rpResults[i].Requirement.Optional
                      /\ rpResults[i].Present
                      /\ ~rpResults[i].Err.nil}
OptionalUnusable == {i \in 1..Len(rpResults) :
                      /\ rpResults[i].Requirement.Optional
                      /\ ~rpResults[i].Present \/ ~rpResults[i].Err.nil}

\* C9 (Validate aggregation): the count Report returns for a snapshot is the
\* number of its results that are required and not present plus the number that
\* are required, present and carry a validator error; no result counts twice,
\* optional results do not count, and MustValidate exits exactly when the count
\* is not zero.
C9_FailureCount ==
    Reported =>
        /\ rpOut.missing = Cardinality(RequiredAbsent) + Cardinality(RequiredInvalid)
        /\ rpOut.missing = Cardinality(RequiredAbsent \cup RequiredInvalid)
        /\ rpOut.missing + Cardinality(OptionalUnusable) <= Len(rpResults)
        /\ exited = (rpOut.missing # 0)

\* a snapshot of three results, one valid, one required and absent, one
\* required and invalid: the count is 2 and the process exits
C9_Witness ==
    /\ Reported
    /\ Len(rpResults) = MaxResults
    /\ Cardinality(RequiredAbsent) = 1
    /\ Cardinality(RequiredInvalid) = 1
    /\ \E i \in 1..Len(rpResults) :
           rpResults[i].Present /\ rpResults[i].Err.nil
    /\ rpOut.missing = 2
    /\ exited

\* C10 (sensitive redaction in Report): the row rendered for a sensitive result
\* with a non-empty value does not contain the value, whatever the status, the
\* length of the value and the show-values toggle.
C10_SensitiveRedacted ==
    Reported =>
        \A i \in 1..Len(rpResults) :
            (rpResults[i].Requirement.Sensitive /\ rpResults[i].Value # EmptyStr)
            => ~Contains(rpOut.lines[Len(Header) + i], rpResults[i].Value)

\* p takes the step that returns from CheckAll
CheckAllReturns(p) ==
    /\ At(p, "CheckAll", "loop")
    /\ Top(p).unchecked = {}
    /\ stack'[p] # stack[p]

\* the results CheckAll returns in that step, to its caller's frame or out of
\* the top-level call
CheckAllResults(p) ==
    IF Len(stack[p]) = 1 THEN ret'.results ELSE stack'[p][Len(stack[p]) - 1].results

\* results holds one Result for each of the names, in strictly ascending order
OnePerName(results, names) ==
    /\ {results[i].Requirement.Name : i \in 1..Len(results)} = names
    /\ Len(results) = Cardinality(names)
    /\ \A i \in 1..Len(results) - 1 :
           StrLess(results[i].Requirement.Name, results[i + 1].Requirement.Name)

\* C11, the step that returns from CheckAll: the results are one per name of
\* the requirement table as CheckAll read it, in strictly ascending order of
\* name, and when no Reset has run since, each of the names has a cached Result
C11_Returns ==
    \A p \in Procs :
        CheckAllReturns(p) =>
            /\ OnePerName(CheckAllResults(p), Top(p).snap)
            /\ resets' = Top(p).epoch => Top(p).snap \subseteq DOMAIN cache'

\* C11 (CheckAll): CheckAll returns exactly one Result for every name of the
\* requirement table, without duplicates, in strictly ascending name order; the
\* names are all cached at the return when no Reset intervenes; and no call of
\* CheckAll, top-level or from MustValidate, panics.
C11_CheckAllSnapshot ==
    /\ [][C11_Returns]_vars
    /\ [](ret.kind = "panic" => ret.op = "Check")

\* C12 (default substitution on first resolution): the cached Result of a name
\* is present with the environment's value when the environment has the name,
\* whatever the default; present with the default of the requirement it was
\* resolved for when the environment lacks the name and that default is not
\* empty; and not present, with an empty value, when there is neither.
C12_DefaultSubstitution ==
    \A n \in DOMAIN cache :
        LET c == cache[n]
        IN IF n \in DOMAIN env
           THEN c.Present /\ c.Value = env[n]
           ELSE IF c.Requirement.Default # EmptyStr
                THEN c.Present /\ c.Value = c.Requirement.Default
                ELSE ~c.Present /\ c.Value = EmptyStr

\* in an environment with nothing set, one name is resolved to its default and
\* another, declared without a default, is resolved as absent
C12_Witness ==
    /\ env = EnvUnset
    /\ \E n, m \in DOMAIN cache :
           /\ cache[n].Requirement.Default = Default80
           /\ cache[n].Present /\ cache[n].Value = Default80
           /\ cache[m].Requirement.Default = EmptyStr
           /\ ~cache[m].Present
    /\ CheckReturnedResult

\* the Results built for name n by Checks that have not stored them yet
Unstored(n) ==
    {Top(p).res : p \in {q \in Procs : /\ ~Idle(q)
                                       /\ Top(q).fn = "Check"
                                       /\ Top(q).pc \in {"store_lock", "store"}
                                       /\ Top(q).r.Name = n}}

\* the Results built for name n so far: the cached one and those about to be stored
Resolutions(n) == (IF n \in DOMAIN cache THEN {cache[n]} ELSE {}) \cup Unstored(n)

\* C13 (validator gating): with non-overlapping calls, the validator of a name
\* has run (once) exactly when the name has been resolved with a value present
\* and a validator; a Result that is not present carries no error; and the
\* Result of each name is the resolution of its own first declaration in the
\* environment, whatever was declared for other names and whatever their
\* validators said.
C13_ValidatorGating ==
    \A n \in Names :
        /\ Cardinality(Resolutions(n)) <= 1
        /\ Resolutions(n) = {} => valCalls[n] = 0
        /\ \A c \in Resolutions(n) :
               LET gated == c.Present /\ c.Requirement.Validate # "nil"
               IN /\ valCalls[n] = (IF gated THEN 1 ELSE 0)
                  /\ ~c.Present => c.Err.nil
                  /\ ~gated => c.Err.nil
                  /\ gated => c.Err = ApplyValidator(c.Requirement.Validate, c.Value)
                  /\ c = Resolve(env, hist[n][1])

\* the validator of one name has rejected its value, and a Check of another
\* name, declared and resolved after it, has returned a valid, present Result
C13_Witness ==
    /\ CheckReturnedResult
    /\ ops = 2
    /\ resets = 0
    /\ ret.res.Present /\ ret.res.Err.nil
    /\ ret.res.Requirement.Validate # "nil"
    /\ valCalls[ret.arg.Name] = 1
    /\ \E n \in DOMAIN cache :
           /\ n # ret.arg.Name
           /\ cache[n].Present
           /\ ~cache[n].Err.nil
           /\ cache[n] \in returned[n]

\* p takes a step of a call of Value: the call itself, or a step inside it
ValueStep(p) ==
    \/ ~Idle(p) /\ Top(p).fn = "Value" /\ stack'[p] # stack[p]
    \/ Idle(p) /\ stack'[p] # << >> /\ stack'[p][1].fn = "Value"

\* the step just taken returned from Value
ValueReturned == ret.op = "Value" /\ ret.kind = "return"

\* C14 (Value is a pure cache read): no step of Value changes the requirement
\* table, the result cache or the frozen flag, reads the environment, calls a
\* validator or declares anything, and the step that returns, for a cached name,
\* returns the value and the presence of the cached Result.
C14_ValuePureRead ==
    [][\A p \in Procs :
         ValueStep(p) =>
            /\ reg' = reg /\ cache' = cache /\ frozen' = frozen
            /\ envReads' = envReads /\ valCalls' = valCalls /\ hist' = hist
            /\ stack'[p] = << >> =>
                  /\ ValueReturned'
                  /\ ret'.arg = Top(p).arg
                  /\ Top(p).arg.Name \in DOMAIN cache =>
                        /\ ret'.val = cache[Top(p).arg.Name].Value
                        /\ ret'.ok = cache[Top(p).arg.Name].Present]_vars

\* Value has returned the value of a name cached as present from the
\* environment, which differs from the name's declared default
C14_Witness ==
    /\ ValueReturned
    /\ ret.arg.Name \in DOMAIN cache
    /\ ret.ok
    /\ ret.val = cache[ret.arg.Name].Value
    /\ ret.arg.Name \in DOMAIN env
    /\ ret.val = env[ret.arg.Name]
    /\ ret.val # cache[ret.arg.Name].Requirement.Default

\* what Value has just returned
Reply == [val |-> ret.val, ok |-> ret.ok]

\* what Value returns for a name that was never declared
NotFound == ValueOf(EmptyMap, ret.arg.Name)

\* C15 (Value tells 'not found' from 'found'): with non-overlapping calls, Value
\* of a name that has no cached Result reports not found, and Value of a name
\* that has one, a Result that is not present included, reports something else
\* than it reports for a name that was never declared.
C15_FoundDistinct ==
    ValueReturned =>
        IF ret.arg.Name \in DOMAIN cache
        THEN Reply # NotFound
        ELSE Reply = [val |-> EmptyStr, ok |-> FALSE]

\* the step just taken was a call of Freeze
FreezeReturned == ret.op = "Freeze" /\ ret.kind = "return"

\* C16 (Freeze is one-way and idempotent): a step that clears the frozen flag is
\* Reset's; every other step of Check, CheckAll, Value, MustValidate and Freeze
\* leaves a set flag set; and a call of Freeze, whether the flag was set or not,
\* sets it and changes neither the requirement table nor the result cache.
C16_FreezeOneWay ==
    [][/\ (frozen /\ ~frozen') => (resets' = resets + 1 /\ ret'.op = "Reset")
       /\ FreezeReturned' => (frozen' /\ reg' = reg /\ cache' = cache)]_vars

\* Freeze has returned in a registry that holds a declared and resolved name,
\* after at least two other calls
C16_Witness ==
    /\ FreezeReturned
    /\ frozen
    /\ resets = 0
    /\ ops = MaxOps
    /\ \E n \in DOMAIN reg : n \in DOMAIN cache /\ cache[n] \in returned[n]

\* the step just taken returned from Reset
ResetReturned == ret.op = "Reset" /\ ret.kind = "return"

\* C17 (Reset): with non-overlapping calls, when Reset returns the requirement
\* table and the result cache are empty and the frozen flag is open; after a
\* Reset the entry of a name is the merge of the declarations made since, its
\* cached Result is the resolution of the first of them, read from the
\* environment once since the Reset, and no Check is on the panic path while
\* the flag is open.
C17_ResetToInitial ==
    /\ ResetReturned => (reg = EmptyMap /\ cache = EmptyMap /\ ~frozen)
    /\ resets > 0 =>
          /\ \A n \in DOMAIN reg : hist[n] # << >> /\ reg[n] = SerialMerge(hist[n])
          /\ \A n \in DOMAIN cache :
                 /\ n \in DOMAIN reg
                 /\ cache[n] = Resolve(env, hist[n][1])
                 /\ envReads[n] = 1
          /\ \A p \in Procs : InCheck(p, {"panic_report"}) => frozen
          /\ CheckPanicked => frozen

\* after three other calls and one Reset, a Check of a new required name has
\* been accepted and has returned the resolution of its declaration
C17_Witness ==
    /\ CheckReturnedResult
    /\ resets = 1
    /\ ops = MaxSeqOps
    /\ ~frozen
    /\ ~ret.arg.Optional
    /\ hist[ret.arg.Name] = <<ret.arg>>
    /\ reg[ret.arg.Name] = ret.arg
    /\ ret.res = Resolve(env, ret.arg)
    /\ envReads[ret.arg.Name] = 1

\* a decimal digit
IsDigit(c) == c >= 48 /\ c <= 57

RECURSIVE IntValue(_)
\* the integer a string of decimal digits denotes
IntValue(v) ==
    IF v = << >> THEN 0
    ELSE 10 * IntValue(SubSeq(v, 1, Len(v) - 1)) + (v[Len(v)] - 48)

\* v is a non-empty string of decimal digits whose value is a port number
IsPortNumber(v) ==
    /\ v # << >>
    /\ \A i \in 1..Len(v) : IsDigit(v[i])
    /\ IntValue(v) >= 1
    /\ IntValue(v) <= 65535

\* C18 (Port): Port returns nil exactly for the strings of decimal digits whose
\* integer value is in 1..65535, and an error for every other string.
C18_PortRange ==
    pvOut # << >> => (pvOut[1].nil <=> IsPortNumber(pvIn))

\* C19 (the freeze gate is atomic with the merge): no step inserts a name that
\* was not in the requirement table, with a required canonical requirement,
\* while the frozen flag is set.
C19_FreezeGateAtomic ==
    [][\A n \in Names :
         (n \notin DOMAIN reg /\ n \in DOMAIN reg' /\ ~reg'[n].Optional) => ~frozen]_vars

\* the step just taken returned from MustValidate without exiting
ValidatePassed == ret.op = "MustValidate" /\ ret.kind = "return" /\ ret.missing = 0

\* C20 (validation completeness): with non-overlapping calls, when MustValidate
\* has counted no failure, every name whose canonical requirement is required
\* has a cached Result that is present and carries no validator error.
C20_ValidateComplete ==
    ValidatePassed =>
        \A n \in DOMAIN reg :
            ~reg[n].Optional =>
                /\ n \in DOMAIN cache
                /\ cache[n].Present
                /\ cache[n].Err.nil

\* some of the first k declarations merged for name n was marked sensitive
DeclaredSensitive(n, k) == \E i \in 1..k : hist[n][i].Sensitive

\* the step just taken returned from a top-level CheckAll
CheckAllReturned == ret.op = "CheckAll" /\ ret.kind = "return"

\* C21 (sensitivity reaches the report): with non-overlapping calls, the Result
\* Check returns for a name is marked sensitive when a declaration of the name
\* made by an earlier call was marked sensitive, and so is every Result CheckAll
\* returns for a name with a sensitive declaration.
C21_SensitiveReachesReport ==
    /\ CheckReturnedResult =>
           (DeclaredSensitive(ret.arg.Name, Len(hist[ret.arg.Name]) - 1)
                => ret.res.Requirement.Sensitive)
    /\ CheckAllReturned =>
           \A i \in 1..Len(ret.results) :
               LET n == ret.results[i].Requirement.Name
               IN DeclaredSensitive(n, Len(hist[n])) => ret.results[i].Requirement.Sensitive

\* the frames of CheckAll on the stack of p, by index
CheckAllFrames(p) == {i \in 1..Len(stack[p]) : stack[p][i].fn = "CheckAll"}

\* p is in the Check that CheckAll calls for an unchecked requirement
NestedCheck(p) ==
    /\ Len(stack[p]) >= 2
    /\ Top(p).fn = "Check"
    /\ Caller(p).fn = "CheckAll"

\* no Reset has run since the CheckAll of frame f of p read the table
NoResetSince(p, i, n) ==
    stack[p][i].pc \in {"rlock", "snapshot"} \/ stack[p][i].epoch = n

\* C22, in a state: as long as no Reset has run since CheckAll read the table,
\* the name of the requirement it re-declares is in the table, so that the
\* Check it calls finds the name at the freeze gate and is not on the panic path
C22_KnownName ==
    \A p \in Procs :
        (NestedCheck(p) /\ Caller(p).epoch = resets) =>
            /\ Top(p).arg.Name \in DOMAIN reg
            /\ Top(p).pc # "panic_report"

\* C22, in a step of a goroutine that is in CheckAll, no Reset having run since
\* CheckAll read the table: the requirement table does not change
C22_Step ==
    \A p \in Procs :
        (/\ stack'[p] # stack[p]
         /\ \E i \in CheckAllFrames(p) : NoResetSince(p, i, resets'))
        => reg' = reg

\* C22 (CheckAll does not alter declarations): provided no Reset intervenes, no
\* step of CheckAll, the Checks it calls included, changes the canonical
\* requirement of a name or adds a name to the table, and those Checks never
\* meet an unknown name at the freeze gate, frozen or not.
C22_CheckAllKeepsTable == []C22_KnownName /\ [][C22_Step]_vars

\* the Check called by CheckAll has merged a requirement read from the table
\* that a concurrent declaration had overtaken
C22_Witness ==
    \E p \in Procs :
        /\ NestedCheck(p)
        /\ Caller(p).epoch = resets
        /\ Top(p).pc = "cache_rlock"
        /\ Top(p).arg # reg[Top(p).arg.Name]
        /\ hist[Top(p).arg.Name][Len(hist[Top(p).arg.Name])] = Top(p).arg
        /\ Len(hist[Top(p).arg.Name]) = 3


(***************************************************************************)
(* C23: the cache is covered by the requirement table.                     *)
(***************************************************************************)
Covered ==
    \A n \in DOMAIN cache : n \in DOMAIN reg /\ cache[n].Requirement.Name = n

\* C23 (cache is covered by the table): as long as no Reset has cleared
\* the registry while a Check was in flight, under any interleaving of
\* Check, CheckAll, Value, MustValidate, Freeze and Reset every name with
\* a cached Result is also a key of reg and the Result's embedded
\* requirement carries the name it is cached under, so whatever Value
\* can return is a Result that CheckAll copies into its snapshot.
C23_CacheCovered == ~raced => Covered

\* a name is cached after a Reset that ran while a CheckAll of the other
\* goroutine was between its snapshot and its loop, and that CheckAll is
\* still in flight
C23_Witness ==
    /\ ~raced
    /\ resets = 1
    /\ cache # EmptyMap
    /\ \E p \in Procs : \E i \in CheckAllFrames(p) :
           stack[p][i].pc \notin {"rlock", "snapshot"} /\ stack[p][i].epoch = 0


(***************************************************************************)
(* C24: no deadlock and no leaked lock.                                    *)
(***************************************************************************)
HoldsWrite(p) == muW = p
HoldsRead(p) == p \in muR

\* the places where the code is between mu.Lock() and mu.Unlock(), and
\* between mu.RLock() and mu.RUnlock()
WriteSections == {<<"Check", "merge">>, <<"Check", "store">>, <<"Reset", "clear">>}
ReadSections == {<<"Check", "gate">>, <<"Check", "cache_check">>,
                 <<"Value", "read">>, <<"CheckAll", "snapshot">>}
Place(f) == <<f.fn, f.pc>>

\* goroutine p holds the lock exactly while its innermost frame is in a
\* critical section; a frame that has called into the registry is in none
LockDiscipline ==
    \A p \in Procs :
        /\ HoldsWrite(p) <=> (~Idle(p) /\ Place(Top(p)) \in WriteSections)
        /\ HoldsRead(p) <=> (~Idle(p) /\ Place(Top(p)) \in ReadSections)
        /\ \A i \in 1..(Len(stack[p]) - 1) :
               Place(stack[p][i]) \notin WriteSections \cup ReadSections

\* a call in flight comes to its end, unless the process exits
Completes == \A p \in Procs : ~Idle(p) ~> (Idle(p) \/ exited)

\* C24 (no deadlock, no leaked lock): with every goroutine scheduled
\* fairly, each call of Check, CheckAll, Value, MustValidate, Freeze and
\* Reset that is in flight returns or panics (or the process exits in
\* MustValidate), under any interleaving; a goroutine holds mu only inside
\* the critical sections of lines 59-61, 89-119, 122-127, 147-149, 156-163,
\* 167-180 and 279-285, so not while os.LookupEnv or the validator runs
\* (pc "load"), not while Check waits for the CheckAll of its panic path,
\* not while CheckAll waits for a Check of its loop, and not after a panic
\* has unwound its stack.
C24_NoDeadlockNoLeak == []LockDiscipline /\ Completes

\* a Check has just panicked while the other goroutine, in a Check of its
\* own, is about to take the write lock: the panic left the lock free
C24_Witness ==
    /\ ret.op = "Check" /\ ret.kind = "panic"
    /\ muW = 0 /\ muR = {}
    /\ \E q \in Procs \ {ret.p} : At(q, "Check", "merge_lock")

====
